---- MODULE Spec2Model ----
(***************************************************************************)
(* A model of pyshell.py: the read/evaluate loop of main(), the tokenizer  *)
(* (shlex.split in POSIX mode), the operator-spacing substitution, the     *)
(* parser with pathname expansion, and the fork/pipe/dup2/exec/wait        *)
(* orchestration, over an operating system with per-process descriptor     *)
(* tables.  Text is a sequence of one-character strings.                   *)
(***************************************************************************)
EXTENDS Integers, Sequences, FiniteSets, TLC

\* ------------------------------------------------------------------------
\* Bounds of the model
\* ------------------------------------------------------------------------
MaxLineLen == 3
MaxLogicalLen == 4
MaxLines == 2

\* Characters the user can type.
Alphabet == {"a", " ", "|", "\\", "'", "\"", "*", "~", "$"}

\* ------------------------------------------------------------------------
\* Program constants
\* ------------------------------------------------------------------------
STDIN == 0
STDOUT == 1
STDERR == 2

default_prompt == <<"&", " ">>
continuation_prompt == <<">", " ">>

\* ------------------------------------------------------------------------
\* The environment: home directory, variables, working directory, PATH
\* ------------------------------------------------------------------------
Home == <<"h">>
Environ == [n \in {<<"a">>} |-> <<"a", "a">>]
ListDir == << <<"a">> >>
Programs == {<<"a">>}

\* ------------------------------------------------------------------------
\* Text helpers
\* ------------------------------------------------------------------------
Range(s) == {s[i] : i \in 1..Len(s)}

DropLast(s) == SubSeq(s, 1, Len(s) - 1)

RECURSIVE StringsUpTo(_)
StringsUpTo(n) ==
  IF n = 0 THEN {<<>>}
  ELSE LET shorter == StringsUpTo(n - 1)
       IN  shorter \cup {Append(s, c) : s \in {t \in shorter : Len(t) = n - 1}, c \in Alphabet}

InputLines == StringsUpTo(MaxLineLen)

\* ------------------------------------------------------------------------
\* os.path.expanduser, os.path.expandvars
\* ------------------------------------------------------------------------
RECURSIVE FindFrom(_, _, _)
FindFrom(s, c, i) ==
  IF i > Len(s) THEN Len(s) + 1
  ELSE IF s[i] = c THEN i
  ELSE FindFrom(s, c, i + 1)

\* A leading "~" up to the first "/" is replaced by the home directory; "~name"
\* is left alone when no such user exists (no user is named in this model).
expanduser(path) ==
  IF path = <<>> \/ path[1] # "~" THEN path
  ELSE LET i == FindFrom(path, "/", 2)
       IN  IF i = 2 THEN Home \o SubSeq(path, i, Len(path))
           ELSE path

NameChars == {"a", "h"}

RECURSIVE NameEnd(_, _)
NameEnd(s, i) ==
  IF i <= Len(s) /\ s[i] \in NameChars THEN NameEnd(s, i + 1) ELSE i

\* "$name" is replaced by the variable's value when the variable is set and
\* left alone otherwise.
RECURSIVE SubstVars(_, _)
SubstVars(s, i) ==
  IF i > Len(s) THEN <<>>
  ELSE IF s[i] = "$"
       THEN LET j == NameEnd(s, i + 1)
                name == SubSeq(s, i + 1, j - 1)
            IN  IF name \in DOMAIN Environ
                THEN Environ[name] \o SubstVars(s, j)
                ELSE <<s[i]>> \o SubstVars(s, i + 1)
       ELSE <<s[i]>> \o SubstVars(s, i + 1)

expandvars(path) ==
  IF "$" \notin Range(path) THEN path ELSE SubstVars(path, 1)

\* ------------------------------------------------------------------------
\* procctlRE.sub(r" \1 ", line)
\* ------------------------------------------------------------------------
ProcCtlChars == {"|", "&", "<", ">"}

\* Leftmost, greedy, non-overlapping matches of [|&<>]{1,2}.
RECURSIVE SpaceFrom(_, _)
SpaceFrom(line, i) ==
  IF i > Len(line) THEN <<>>
  ELSE IF line[i] \in ProcCtlChars
       THEN IF i + 1 <= Len(line) /\ line[i + 1] \in ProcCtlChars
            THEN <<" ", line[i], line[i + 1], " ">> \o SpaceFrom(line, i + 2)
            ELSE <<" ", line[i], " ">> \o SpaceFrom(line, i + 1)
       ELSE <<line[i]>> \o SpaceFrom(line, i + 1)

procctlRE_sub(line) == SpaceFrom(line, 1)

\* Lines 204-211 of main(): the expansions, then the operator spacing.
Preprocess(raw) == procctlRE_sub(expandvars(expanduser(raw)))

\* ------------------------------------------------------------------------
\* shlex.split(line): shlex(line, posix=True), whitespace_split=True,
\* commenters=''.  One pass over the characters; `state` is shlex's state
\* (" " between tokens, "a" in a word, a quote character, the escape
\* character), `escapedstate` the state an escape returns to.
\* ------------------------------------------------------------------------
Whitespace == {" "}
Quotes == {"'", "\""}
EscapeChars == {"\\"}
EscapedQuotes == {"\""}

NoClosingQuotation == "No closing quotation"
NoEscapedCharacter == "No escaped character"

RECURSIVE ReadTokens(_, _, _, _, _, _, _)
ReadTokens(line, i, state, escapedstate, token, quoted, toks) ==
  IF i > Len(line)
  THEN \* end of input
       IF state \in Quotes THEN [err |-> NoClosingQuotation, tokens |-> <<>>]
       ELSE IF state \in EscapeChars THEN [err |-> NoEscapedCharacter, tokens |-> <<>>]
       ELSE [err |-> "",
             tokens |-> IF token # <<>> \/ quoted THEN Append(toks, token) ELSE toks]
  ELSE LET c == line[i] IN
       IF state = " "
       THEN IF c \in Whitespace
            THEN IF token # <<>> \/ quoted
                 THEN ReadTokens(line, i + 1, " ", " ", <<>>, FALSE, Append(toks, token))
                 ELSE ReadTokens(line, i + 1, " ", escapedstate, token, quoted, toks)
            ELSE IF c \in EscapeChars
            THEN ReadTokens(line, i + 1, c, "a", token, quoted, toks)
            ELSE IF c \in Quotes
            THEN ReadTokens(line, i + 1, c, escapedstate, token, quoted, toks)
            ELSE ReadTokens(line, i + 1, "a", escapedstate, <<c>>, quoted, toks)
       ELSE IF state \in Quotes
       THEN IF c = state
            THEN ReadTokens(line, i + 1, "a", escapedstate, token, TRUE, toks)
            ELSE IF c \in EscapeChars /\ state \in EscapedQuotes
            THEN ReadTokens(line, i + 1, c, state, token, TRUE, toks)
            ELSE ReadTokens(line, i + 1, state, escapedstate, Append(token, c), TRUE, toks)
       ELSE IF state \in EscapeChars
       THEN LET kept == IF escapedstate \in Quotes /\ c # state /\ c # escapedstate
                        THEN Append(token, state)
                        ELSE token
            IN  ReadTokens(line, i + 1, escapedstate, escapedstate, Append(kept, c), quoted, toks)
       ELSE \* state "a"
            IF c \in Whitespace
            THEN IF token # <<>> \/ quoted
                 THEN ReadTokens(line, i + 1, " ", " ", <<>>, FALSE, Append(toks, token))
                 ELSE ReadTokens(line, i + 1, " ", escapedstate, token, quoted, toks)
            ELSE IF c \in Quotes
            THEN ReadTokens(line, i + 1, c, escapedstate, token, quoted, toks)
            ELSE IF c \in EscapeChars
            THEN ReadTokens(line, i + 1, c, "a", token, quoted, toks)
            ELSE ReadTokens(line, i + 1, "a", escapedstate, Append(token, c), quoted, toks)

shlex_split(line) == ReadTokens(line, 1, " ", " ", <<>>, FALSE, <<>>)

\* lex(): the tokens, FinalBackslash for "No escaped character", or the
\* ValueError re-raised for any other lexical error.
lex(line) ==
  LET r == shlex_split(line)
  IN  IF r.err = "" THEN [raised |-> "", tokens |-> r.tokens]
      ELSE IF r.err = NoEscapedCharacter THEN [raised |-> "FinalBackslash", tokens |-> <<>>]
      ELSE [raised |-> "ValueError", tokens |-> <<>>]

\* ------------------------------------------------------------------------
\* glob.glob(token) for a token without a directory part: the names of the
\* working directory, in listing order, that fnmatch accepts.
\* ------------------------------------------------------------------------
RECURSIVE FnMatchFrom(_, _, _, _)
FnMatchFrom(pat, i, name, j) ==
  IF i > Len(pat) THEN j > Len(name)
  ELSE IF pat[i] = "*"
       THEN FnMatchFrom(pat, i + 1, name, j)
            \/ (j <= Len(name) /\ FnMatchFrom(pat, i, name, j + 1))
       ELSE /\ j <= Len(name)
            /\ (pat[i] = "?" \/ pat[i] = name[j])
            /\ FnMatchFrom(pat, i + 1, name, j + 1)

fnmatch(name, pat) == FnMatchFrom(pat, 1, name, 1)

glob_glob(token) == SelectSeq(ListDir, LAMBDA name : fnmatch(name, token))

\* ------------------------------------------------------------------------
\* Command.from_tokens and parse()
\* ------------------------------------------------------------------------
PipeToken == <<"|">>

\* from_tokens taking the name from the wrong end of the token list.
from_tokens_NameIsLast(tokens) ==
  IF tokens = <<>> THEN [raised |-> "IndexError", name |-> <<>>, args |-> <<>>]
  ELSE [raised |-> "", name |-> tokens[Len(tokens)], args |-> tokens]

\* tokens[0] raises IndexError on an empty list.
from_tokens(tokens) ==
  IF tokens = <<>> THEN [raised |-> "IndexError", name |-> <<>>, args |-> <<>>]
  ELSE [raised |-> "", name |-> tokens[1], args |-> tokens]

\* Expanded as a POSIX shell does it: a pattern that matches nothing stays.
Expanded_KeepsUnmatched(token) ==
  IF ("?" \in Range(token) \/ "*" \in Range(token)) /\ glob_glob(token) # <<>>
  THEN glob_glob(token)
  ELSE <<token>>

Expanded(token) ==
  IF "?" \in Range(token) \/ "*" \in Range(token) THEN glob_glob(token) ELSE <<token>>

RECURSIVE ParseFrom(_, _, _, _)
ParseFrom(tokens, k, args, cmds) ==
  IF k > Len(tokens)
  THEN [raised |-> "",
        commands |-> IF args # <<>> THEN Append(cmds, from_tokens(args)) ELSE cmds]
  ELSE IF tokens[k] = PipeToken
       THEN IF from_tokens(args).raised # ""
            THEN [raised |-> from_tokens(args).raised, commands |-> <<>>]
            ELSE ParseFrom(tokens, k + 1, <<>>, Append(cmds, from_tokens(args)))
       ELSE ParseFrom(tokens, k + 1, args \o Expanded(tokens[k]), cmds)

parse(tokens) == ParseFrom(tokens, 1, <<>>, <<>>)

\* ------------------------------------------------------------------------
\* The operating system: descriptor tables, pipes, processes
\* ------------------------------------------------------------------------
\* A descriptor table maps descriptor numbers to [obj, cloexec]; an open file
\* object is <<"tty", n>> for the three standard streams of the shell or
\* <<"r", k>> / <<"w", k>> for the two ends of pipe k.
TtyIn == <<"tty", STDIN>>
TtyOut == <<"tty", STDOUT>>
TtyErr == <<"tty", STDERR>>

NoTable == [fd \in {} |-> [obj |-> TtyIn, cloexec |-> FALSE]]

InitialTable ==
  [fd \in {STDIN, STDOUT, STDERR} |-> [obj |-> <<"tty", fd>>, cloexec |-> FALSE]]

WithFd(tbl, fd, entry) ==
  [f \in DOMAIN tbl \cup {fd} |-> IF f = fd THEN entry ELSE tbl[f]]

\* os.close(fd)
os_close(tbl, fd) == [f \in DOMAIN tbl \ {fd} |-> tbl[f]]

\* os.dup2(fd, fd2): fd2 becomes an inheritable duplicate of fd.
os_dup2(tbl, fd, fd2) == WithFd(tbl, fd2, [obj |-> tbl[fd].obj, cloexec |-> FALSE])

\* The lowest descriptor number not in use.
LowestFree(used) ==
  CHOOSE n \in 0..Cardinality(used) :
    n \notin used /\ \A m \in 0..(n - 1) : m \in used

\* exec closes the descriptors marked close-on-exec.
AfterExec(tbl) ==
  [f \in {g \in DOMAIN tbl : ~tbl[g].cloexec} |-> tbl[f]]

\* Wait statuses: exit code c is c * 256, death by signal s is s.  A program
\* ends with exit code 0 or 1, or is killed by SIGPIPE (signal 13).
ExitStatuses == {0, 256, 13}

\* os.waitstatus_to_exitcode(status)
waitstatus_to_exitcode(status) ==
  IF status % 128 = 0 THEN status \div 256 ELSE -(status % 128)

\* ------------------------------------------------------------------------
\* State
\* ------------------------------------------------------------------------
VARIABLES
  pc,                \* position of the shell process in main()
  prompt,            \* main(): prompt
  logical_line,      \* main(): logical_line
  line,              \* main(): line
  tokens,            \* main(): tokens
  cmds,              \* main(): cmds
  cmd,               \* main(): position of the loop variable cmd in cmds
  child_stdin,       \* main(): child_stdin
  next_child_stdin,  \* main(): next_child_stdin
  child_stdout,      \* main(): child_stdout
  child_pid,         \* main(): child_pid
  exitcode,          \* main(): exitcode, <<>> while unbound
  raised,            \* the exception that left main() uncaught, "" if none
  exit_status,       \* exit status of the shell process, <<>> while it runs
  farewell,          \* the farewell message has been printed
  fds,               \* descriptor table of the shell process
  procs,             \* the forked children that have not been reaped, by pid
  rawLine,           \* the text input() returned, before expansion and spacing
  rawPending,        \* the raw text of the lines accumulated in logical_line
  lastInput,         \* what the last input() call delivered, until it is parsed
  nlines,            \* lines input() has returned so far
  forkCount,         \* os.fork() calls that succeeded in this run of the loop
  pipeCount          \* os.pipe() calls that succeeded in this run of the loop

replVars == <<prompt, logical_line, line, tokens>>
loopVars == <<cmds, cmd, child_stdin, next_child_stdin, child_stdout, child_pid>>
endVars == <<raised, exit_status, farewell>>
ghostVars == <<rawLine, rawPending, lastInput, nlines>>
countVars == <<forkCount, pipeCount>>

vars == <<pc, replVars, loopVars, exitcode, endVars, fds, procs, ghostVars, countVars>>

NoCommand == [raised |-> "", name |-> <<>>, args |-> <<>>]

Init ==
  /\ pc = "read"
  /\ prompt = default_prompt
  /\ logical_line = <<>>
  /\ line = <<>>
  /\ tokens = <<>>
  /\ cmds = <<>>
  /\ cmd = 0
  /\ child_stdin = STDIN
  /\ next_child_stdin = STDIN
  /\ child_stdout = STDOUT
  /\ child_pid = 0
  /\ exitcode = <<>>
  /\ raised = ""
  /\ exit_status = <<>>
  /\ farewell = FALSE
  /\ fds = InitialTable
  /\ procs = <<>>
  /\ rawLine = <<>>
  /\ rawPending = <<>>
  /\ lastInput = "none"
  /\ nlines = 0
  /\ forkCount = 0
  /\ pipeCount = 0

\* Pipes some open descriptor of some process still refers to.
PipesOf(tbl) == {tbl[f].obj[2] : f \in {g \in DOMAIN tbl : tbl[g].obj[1] # "tty"}}

UsedPipes == PipesOf(fds) \cup UNION {PipesOf(procs[p].fds) : p \in DOMAIN procs}

\* An exception nobody catches ends the shell process with status 1.
Uncaught(exc) ==
  /\ pc' = "crashed"
  /\ raised' = exc
  /\ exit_status' = <<1>>
  /\ fds' = NoTable
  /\ UNCHANGED farewell

\* ------------------------------------------------------------------------
\* main(): read a line (lines 199-217)
\* ------------------------------------------------------------------------
\* input() returns a line; it is expanded and its operators are spaced.
ReadLine(raw) ==
  /\ pc = "read"
  /\ nlines < MaxLines
  /\ lex(logical_line \o Preprocess(raw)).raised = "FinalBackslash"
       => Len(logical_line \o DropLast(Preprocess(raw))) <= MaxLogicalLen
  /\ line' = Preprocess(raw)
  /\ rawLine' = raw
  /\ lastInput' = "line"
  /\ nlines' = nlines + 1
  /\ pc' = "lex"
  /\ UNCHANGED <<prompt, logical_line, tokens, loopVars, exitcode, endVars, fds, procs,
                 rawPending, countVars>>

\* ReadEOF without the `if not logical_line` exit: end-of-input is always
\* handed on as an empty line.
ReadEOF_NeverExits ==
  /\ pc = "read"
  /\ lastInput' = "eof"
  /\ rawLine' = <<>>
  /\ line' = <<>>
  /\ pc' = "lex"
  /\ UNCHANGED <<prompt, logical_line, tokens, loopVars, exitcode, endVars, fds, procs,
                 rawPending, nlines, countVars>>

\* input() raises EOFError.
ReadEOF ==
  /\ pc = "read"
  /\ lastInput' = "eof"
  /\ rawLine' = <<>>
  /\ UNCHANGED nlines
  /\ IF logical_line = <<>>
     THEN /\ farewell' = TRUE
          /\ pc' = "exited"
          /\ exit_status' = <<0>>
          /\ fds' = NoTable
          /\ UNCHANGED line
     ELSE /\ line' = <<>>
          /\ pc' = "lex"
          /\ UNCHANGED <<farewell, exit_status, fds>>
  /\ UNCHANGED <<prompt, logical_line, tokens, loopVars, exitcode, raised, procs,
                 rawPending, countVars>>

\* ------------------------------------------------------------------------
\* main(): lex (lines 221-229)
\* ------------------------------------------------------------------------
\* Lex with `logical_line += line` in place of `logical_line += line[:-1]`:
\* the trailing backslash stays in the accumulated text.
Lex_KeepsBackslash ==
  /\ pc = "lex"
  /\ LET r == lex(logical_line \o line)
     IN  IF r.raised = ""
         THEN /\ tokens' = r.tokens
              /\ logical_line' = <<>>
              /\ prompt' = default_prompt
              /\ rawPending' = <<>>
              /\ pc' = "parse"
              /\ UNCHANGED <<lastInput, endVars, fds>>
         ELSE IF r.raised = "FinalBackslash"
         THEN /\ logical_line' = logical_line \o line
              /\ prompt' = continuation_prompt
              /\ rawPending' = rawPending \o rawLine
              /\ pc' = "read"
              /\ lastInput' = "none"
              /\ UNCHANGED <<tokens, endVars, fds>>
         ELSE /\ Uncaught(r.raised)
              /\ lastInput' = "none"
              /\ UNCHANGED <<tokens, logical_line, prompt, rawPending>>
  /\ line' = <<>>
  /\ rawLine' = <<>>
  /\ UNCHANGED <<loopVars, exitcode, procs, nlines, countVars>>

Lex ==
  /\ pc = "lex"
  /\ LET r == lex(logical_line \o line)
     IN  IF r.raised = ""
         THEN /\ tokens' = r.tokens
              /\ logical_line' = <<>>
              /\ prompt' = default_prompt
              /\ rawPending' = <<>>
              /\ pc' = "parse"
              /\ UNCHANGED <<lastInput, endVars, fds>>
         ELSE IF r.raised = "FinalBackslash"
         THEN /\ logical_line' = logical_line \o DropLast(line)
              /\ prompt' = continuation_prompt
              /\ rawPending' = rawPending \o DropLast(rawLine)
              /\ pc' = "read"
              /\ lastInput' = "none"
              /\ UNCHANGED <<tokens, endVars, fds>>
         ELSE /\ Uncaught(r.raised)
              /\ lastInput' = "none"
              /\ UNCHANGED <<tokens, logical_line, prompt, rawPending>>
  \* line is assigned again by the next read before it is used
  /\ line' = <<>>
  /\ rawLine' = <<>>
  /\ UNCHANGED <<loopVars, exitcode, procs, nlines, countVars>>

\* ------------------------------------------------------------------------
\* main(): parse, and the empty-pipeline test (lines 234-242)
\* ------------------------------------------------------------------------
Parse ==
  /\ pc = "parse"
  /\ LET r == parse(tokens)
     IN  IF r.raised # ""
         THEN /\ Uncaught(r.raised)
              /\ UNCHANGED <<tokens, loopVars>>
         ELSE IF r.commands = <<>>
         THEN /\ pc' = "read"
              \* tokens is assigned again before it is next read
              /\ tokens' = <<>>
              /\ UNCHANGED <<loopVars, endVars, fds>>
         ELSE /\ cmds' = r.commands
              /\ cmd' = 1
              /\ child_stdin' = STDIN
              /\ next_child_stdin' = STDIN
              /\ pc' = "loop"
              /\ UNCHANGED <<tokens, child_stdout, child_pid, endVars, fds>>
  /\ lastInput' = "none"
  /\ UNCHANGED <<prompt, logical_line, line, exitcode, procs, rawLine, rawPending, nlines,
                 countVars>>

\* ------------------------------------------------------------------------
\* main(): the fork/exec loop (lines 244-261)
\* ------------------------------------------------------------------------
\* `cmd is last_cmd`: each Command is a fresh object, so only the last one is.
IsLast == cmd = Len(cmds)

LastStdout ==
  /\ pc = "loop"
  /\ IsLast
  /\ child_stdout' = STDOUT
  /\ pc' = "fork"
  /\ UNCHANGED <<replVars, cmds, cmd, child_stdin, next_child_stdin, child_pid,
                 exitcode, endVars, fds, procs, ghostVars, countVars>>

\* os.pipe() succeeds: two new close-on-exec descriptors, the lowest free.
Pipe ==
  /\ pc = "loop"
  /\ ~IsLast
  /\ LET r == LowestFree(DOMAIN fds)
         w == LowestFree(DOMAIN fds \cup {r})
         k == LowestFree(UsedPipes \cup {0})
     IN  /\ fds' = WithFd(WithFd(fds, r, [obj |-> <<"r", k>>, cloexec |-> TRUE]),
                          w, [obj |-> <<"w", k>>, cloexec |-> TRUE])
         /\ next_child_stdin' = r
         /\ child_stdout' = w
  /\ pipeCount' = pipeCount + 1
  /\ pc' = "fork"
  /\ UNCHANGED <<replVars, cmds, cmd, child_stdin, child_pid, exitcode, endVars, procs,
                 ghostVars, forkCount>>

\* os.pipe() raises OSError.
PipeFails ==
  /\ pc = "loop"
  /\ ~IsLast
  /\ Uncaught("OSError")
  /\ UNCHANGED <<replVars, loopVars, exitcode, procs, ghostVars, countVars>>

\* os.fork() succeeds: the child starts with a copy of the descriptor table.
Fork ==
  /\ pc = "fork"
  /\ LET pid == LowestFree(DOMAIN procs \cup {0})
         child == [leader |-> IF cmd = 1 THEN pid ELSE procs[child_pid].leader,
                   stage |-> cmd,
                   last |-> IsLast,
                   cmd |-> cmds[cmd],
                   stdin |-> child_stdin,
                   stdout |-> child_stdout,
                   fds |-> fds,
                   st |-> "forked",
                   file |-> <<>>,
                   argv |-> <<>>,
                   status |-> 0,
                   diag |-> <<>>]
     IN  /\ procs' = [p \in DOMAIN procs \cup {pid} |-> IF p = pid THEN child ELSE procs[p]]
         /\ child_pid' = pid
  /\ forkCount' = forkCount + 1
  /\ pc' = "parent"
  /\ UNCHANGED <<replVars, cmds, cmd, child_stdin, next_child_stdin, child_stdout,
                 exitcode, endVars, fds, ghostVars, pipeCount>>

\* os.fork() raises OSError.
ForkFails ==
  /\ pc = "fork"
  /\ Uncaught("OSError")
  /\ UNCHANGED <<replVars, loopVars, exitcode, procs, ghostVars, countVars>>

\* ParentClose without the promotion of next_child_stdin to child_stdin.
ParentClose_NoPromote ==
  /\ pc = "parent"
  /\ fds' = IF child_stdout # STDOUT THEN os_close(fds, child_stdout) ELSE fds
  /\ IF IsLast
     THEN pc' = "cleanup" /\ UNCHANGED cmd
     ELSE pc' = "loop" /\ cmd' = cmd + 1
  /\ UNCHANGED <<replVars, cmds, child_stdin, next_child_stdin, child_stdout, child_pid,
                 exitcode, endVars, procs, ghostVars, countVars>>

\* ParentClose without the os.close of the write end.
ParentClose_KeepsWriteEnd ==
  /\ pc = "parent"
  /\ child_stdin' = next_child_stdin
  /\ IF IsLast
     THEN pc' = "cleanup" /\ UNCHANGED cmd
     ELSE pc' = "loop" /\ cmd' = cmd + 1
  /\ UNCHANGED <<replVars, cmds, next_child_stdin, child_stdout, child_pid, exitcode,
                 endVars, fds, procs, ghostVars, countVars>>

\* Lines 257-261: the parent closes the write end and promotes the read end.
ParentClose ==
  /\ pc = "parent"
  /\ fds' = IF child_stdout # STDOUT THEN os_close(fds, child_stdout) ELSE fds
  /\ child_stdin' = next_child_stdin
  /\ IF IsLast
     THEN pc' = "cleanup" /\ UNCHANGED cmd
     ELSE pc' = "loop" /\ cmd' = cmd + 1
  /\ UNCHANGED <<replVars, cmds, next_child_stdin, child_stdout, child_pid, exitcode,
                 endVars, procs, ghostVars, countVars>>

\* ------------------------------------------------------------------------
\* main(): clean up and wait (lines 263-267)
\* ------------------------------------------------------------------------
CleanUp ==
  /\ pc = "cleanup"
  /\ fds' = IF child_stdin # STDIN THEN os_close(fds, child_stdin) ELSE fds
  /\ pc' = "wait"
  /\ UNCHANGED <<replVars, loopVars, exitcode, endVars, procs, ghostVars, countVars>>

\* Wait as os.waitpid(-1, 0) would be: any child that has exited is reaped.
Wait_AnyChild ==
  /\ pc = "wait"
  /\ \E p \in DOMAIN procs :
       /\ procs[p].st = "exited"
       /\ exitcode' = <<waitstatus_to_exitcode(procs[p].status)>>
       /\ procs' = [q \in DOMAIN procs \ {p} |-> procs[q]]
  /\ pc' = "read"
  /\ tokens' = <<>>
  /\ cmds' = <<>>
  /\ cmd' = 0
  /\ child_stdin' = STDIN
  /\ next_child_stdin' = STDIN
  /\ child_stdout' = STDOUT
  /\ child_pid' = 0
  /\ forkCount' = 0
  /\ pipeCount' = 0
  /\ UNCHANGED <<prompt, logical_line, line, endVars, fds, ghostVars>>

\* os.waitpid(child_pid, 0) returns once that child has exited, and reaps it.
Wait ==
  /\ pc = "wait"
  /\ child_pid \in DOMAIN procs
  /\ procs[child_pid].st = "exited"
  /\ exitcode' = <<waitstatus_to_exitcode(procs[child_pid].status)>>
  /\ procs' = [p \in DOMAIN procs \ {child_pid} |-> procs[p]]
  /\ pc' = "read"
  \* the locals below are assigned again before they are next read
  /\ tokens' = <<>>
  /\ cmds' = <<>>
  /\ cmd' = 0
  /\ child_stdin' = STDIN
  /\ next_child_stdin' = STDIN
  /\ child_stdout' = STDOUT
  /\ child_pid' = 0
  /\ forkCount' = 0
  /\ pipeCount' = 0
  /\ UNCHANGED <<prompt, logical_line, line, endVars, fds, ghostVars>>

\* ------------------------------------------------------------------------
\* The children: child_exec() (lines 270-279) and the executed program
\* ------------------------------------------------------------------------
\* The child's table after the two dup2 calls, at the execvp call.
TableAtExec(p) ==
  LET t1 == IF p.stdin # STDIN THEN os_dup2(p.fds, p.stdin, STDIN) ELSE p.fds
  IN  IF p.stdout # STDOUT THEN os_dup2(t1, p.stdout, STDOUT) ELSE t1

\* What the child writes to its standard error when execvp raises: the text
\* of SystemExit(f"{cmd.name}: command not found"), or the traceback of any
\* other exception.
CommandNotFound == ": command not found"
Traceback == "Traceback (most recent call last)"

\* os.execvp: ValueError for an empty args[0], FileNotFoundError for a name
\* that is not on the PATH.
ExecOutcome(c) ==
  IF c.args[1] = <<>> THEN "ValueError"
  ELSE IF c.name \notin Programs THEN "FileNotFoundError"
  ELSE "ok"

\* child_exec with a bare `raise SystemExit`: no message, exit status 0.
child_exec_SilentExit(pid) ==
  /\ pid \in DOMAIN procs
  /\ procs[pid].st = "forked"
  /\ LET p == procs[pid]
         out == ExecOutcome(p.cmd)
     IN  procs' = [procs EXCEPT ![pid] =
           IF out = "ok"
           THEN [p EXCEPT !.st = "running", !.fds = AfterExec(TableAtExec(p)),
                          !.file = p.cmd.name, !.argv = p.cmd.args,
                          !.cmd = NoCommand]
           ELSE [p EXCEPT !.st = "exited", !.fds = NoTable,
                          !.status = IF out = "FileNotFoundError" THEN 0 ELSE 256,
                          !.cmd = NoCommand,
                          !.diag = IF out = "FileNotFoundError" THEN <<>> ELSE <<Traceback>>]]
  /\ UNCHANGED <<pc, replVars, loopVars, exitcode, endVars, fds, ghostVars, countVars>>

child_exec(pid) ==
  /\ pid \in DOMAIN procs
  /\ procs[pid].st = "forked"
  /\ LET p == procs[pid]
         out == ExecOutcome(p.cmd)
     IN  procs' = [procs EXCEPT ![pid] =
           IF out = "ok"
           THEN [p EXCEPT !.st = "running", !.fds = AfterExec(TableAtExec(p)),
                          !.file = p.cmd.name, !.argv = p.cmd.args,
                          !.cmd = NoCommand]
           ELSE [p EXCEPT !.st = "exited", !.fds = NoTable, !.status = 256,
                          !.cmd = NoCommand,
                          !.diag = IF out = "FileNotFoundError"
                                   THEN <<p.cmd.name, CommandNotFound>>
                                   ELSE <<Traceback>>]]
  /\ UNCHANGED <<pc, replVars, loopVars, exitcode, endVars, fds, ghostVars, countVars>>

\* The executed program ends, by exit or by a signal.
ProgramExit(pid, status) ==
  /\ pid \in DOMAIN procs
  /\ procs[pid].st = "running"
  /\ procs' = [procs EXCEPT ![pid] =
       [@ EXCEPT !.st = "exited", !.fds = NoTable, !.status = status,
                  !.file = <<>>, !.argv = <<>>]]
  /\ UNCHANGED <<pc, replVars, loopVars, exitcode, endVars, fds, ghostVars, countVars>>

\* ------------------------------------------------------------------------
\* Specification
\* ------------------------------------------------------------------------
Next ==
  \/ \E raw \in InputLines : ReadLine(raw)
  \/ ReadEOF
  \/ Lex
  \/ Parse
  \/ LastStdout
  \/ Pipe
  \/ PipeFails
  \/ Fork
  \/ ForkFails
  \/ ParentClose
  \/ CleanUp
  \/ Wait
  \/ \E pid \in DOMAIN procs : child_exec(pid)
  \/ \E pid \in DOMAIN procs, status \in ExitStatuses : ProgramExit(pid, status)

Spec == Init /\ [][Next]_vars

\* ------------------------------------------------------------------------
\* Vocabulary of the properties
\* ------------------------------------------------------------------------
RECURSIVE GroupsFrom(_, _, _, _)
GroupsFrom(toks, k, cur, acc) ==
  IF k > Len(toks) THEN Append(acc, cur)
  ELSE IF toks[k] = PipeToken
       THEN GroupsFrom(toks, k + 1, <<>>, Append(acc, cur))
       ELSE GroupsFrom(toks, k + 1, Append(cur, toks[k]), acc)

\* The command groups the pipe tokens separate (one more than the pipe tokens).
TokenGroups(toks) == GroupsFrom(toks, 1, <<>>, <<>>)

RECURSIVE ExpandAll(_, _)
ExpandAll(group, k) ==
  IF k > Len(group) THEN <<>> ELSE Expanded(group[k]) \o ExpandAll(group, k + 1)

GroupsNonEmpty(toks) ==
  \A g \in 1..Len(TokenGroups(toks)) : TokenGroups(toks)[g] # <<>>

GroupsNonEmptyExpanded(toks) ==
  \A g \in 1..Len(TokenGroups(toks)) : ExpandAll(TokenGroups(toks)[g], 1) # <<>>

\* The token sequence is empty or ends with a pipe token.
EndsOpen(toks) == toks = <<>> \/ toks[Len(toks)] = PipeToken

InOrchestrator == pc \in {"loop", "fork", "parent", "cleanup", "wait"}

Running(p) == p \in DOMAIN procs /\ procs[p].st = "running"

\* Every child that runs its program has the descriptors of its stage: the
\* first stage reads the shell's standard input, the last one writes the
\* shell's standard output, and stage i writes the pipe stage i+1 reads.
StagesWired ==
  /\ \A p \in DOMAIN procs :
       Running(p) =>
         /\ procs[p].stage = 1 => procs[p].fds[STDIN].obj = TtyIn
         /\ procs[p].last => procs[p].fds[STDOUT].obj = TtyOut
  /\ \A p, q \in DOMAIN procs :
       (/\ Running(p) /\ Running(q)
        /\ procs[p].leader = procs[q].leader
        /\ procs[q].stage = procs[p].stage + 1)
       => /\ procs[p].fds[STDOUT].obj[1] = "w"
          /\ procs[q].fds[STDIN].obj[1] = "r"
          /\ procs[p].fds[STDOUT].obj[2] = procs[q].fds[STDIN].obj[2]

\* ------------------------------------------------------------------------
\* Properties
\* ------------------------------------------------------------------------

\* C1 (as stated): when the loop over a token sequence whose N command groups
\* are all non-empty has finished, N children have been forked and N-1 pipes
\* created, and the stages are wired first to last.
C1_ForksOnePerGroup ==
  /\ (pc = "wait" /\ GroupsNonEmpty(tokens)) =>
       /\ forkCount = Len(TokenGroups(tokens))
       /\ pipeCount = Len(TokenGroups(tokens)) - 1
  /\ StagesWired

\* C1 (amended): the same for token sequences whose N command groups are all
\* non-empty after pathname expansion.
C1_ForksOnePerExpandedGroup ==
  /\ (pc = "wait" /\ GroupsNonEmptyExpanded(tokens)) =>
       /\ forkCount = Len(TokenGroups(tokens))
       /\ pipeCount = Len(TokenGroups(tokens)) - 1
  /\ StagesWired

\* C1 witness: a three-stage pipeline whose loop has finished with all three
\* programs running.
C1_ThreeStagesRunning ==
  /\ pc = "wait"
  /\ GroupsNonEmptyExpanded(tokens)
  /\ Len(TokenGroups(tokens)) = 3
  /\ Cardinality(DOMAIN procs) = 3
  /\ \A p \in DOMAIN procs : Running(p)

\* C2: when the shell is back at its read, every child it forked has been
\* reaped.
C2_AllChildrenReaped == pc = "read" => DOMAIN procs = {}

\* C3: when the shell is back at its read, its descriptor table is the one it
\* started with: no pipe end is left open.
C3_NoDescriptorLeft == pc = "read" => fds = InitialTable

\* C4: lexing a line M read at the continuation prompt gives what lexing the
\* single raw line "the lines before it without their trailing backslashes,
\* then M" gives: the same tokens, or the same request for one more line.
C4_ContinuationLaw ==
  [][(pc = "lex" /\ pc' # "lex" /\ prompt = continuation_prompt /\ lastInput = "line") =>
       LET direct == lex(Preprocess(rawPending \o rawLine))
       IN  /\ (pc' = "parse") = (direct.raised = "")
           /\ (pc' = "read") = (direct.raised = "FinalBackslash")
           /\ pc' = "parse" => tokens' = direct.tokens]_vars

\* C5: a lexical error other than the trailing backslash leaves the shell
\* running, back at its read in the fresh state, with no process forked.
C5_LexicalErrorSurvived ==
  [][(pc = "lex" /\ pc' # "lex" /\ lex(logical_line \o line).raised = "ValueError") =>
       /\ pc' = "read"
       /\ logical_line' = <<>>
       /\ prompt' = default_prompt
       /\ procs' = procs]_vars

\* C6: for an empty token sequence and for one that ends with a pipe token no
\* pipe is created and no process is forked.
C6_OpenPipeRunsNothing ==
  EndsOpen(tokens) => (~InOrchestrator /\ forkCount = 0 /\ pipeCount = 0)

\* C7: parsing never ends the shell process, whatever the token sequence.
C7_ParseNeverTerminates == [][(pc = "parse") => (pc' # "crashed")]_vars

\* C8: a failing os.pipe() or os.fork() does not end the shell process.
C8_ForkPipeFailureSurvived == [][(pc \in {"loop", "fork"}) => (pc' # "crashed")]_vars

\* C9: end-of-input in the fresh state prints the farewell, forks nothing, and
\* ends the shell with exit status 0.
C9_EofWhenFreshExits ==
  [][(/\ pc = "read" /\ pc' # "read" /\ lastInput' = "eof"
      /\ logical_line = <<>> /\ prompt = default_prompt) =>
       /\ pc' = "exited"
       /\ farewell'
       /\ exit_status' = <<0>>
       /\ procs' = procs]_vars

\* C9 witness: the shell has exited on end-of-input at its very first read.
C9_ExitedAtFirstRead ==
  /\ pc = "exited"
  /\ lastInput = "eof"
  /\ nlines = 0
  /\ farewell
  /\ exit_status = <<0>>

\* C10: end-of-input at the continuation prompt is handled as an empty line:
\* the accumulated text goes to the lexer.
C10_EofWhenContinuingIsLexed ==
  [][(pc = "read" /\ pc' # "read" /\ prompt = continuation_prompt /\ lastInput' = "eof") =>
       (pc' = "lex" /\ line' = <<>>)]_vars

\* ------------------------------------------------------------------------
\* Vocabulary of the glob law
\* ------------------------------------------------------------------------
Wild(token) == "?" \in Range(token) \/ "*" \in Range(token)

\* A wildcard token no name of the working directory matches.
NoMatch(token) ==
  Wild(token) /\ \A n \in 1..Len(ListDir) : ~fnmatch(ListDir[n], token)

\* The tokens that are arguments: all but the pipe tokens.
ArgTokens(toks) == SelectSeq(toks, LAMBDA t : t # PipeToken)

PlainTokens(toks) == SelectSeq(toks, LAMBDA t : ~Wild(t))

RECURSIVE FlatArgs(_, _)
FlatArgs(commands, k) ==
  IF k > Len(commands) THEN <<>> ELSE commands[k].args \o FlatArgs(commands, k + 1)

\* C11: glob law.  For a token sequence whose wildcard tokens all match nothing,
\* a parse that returns yields commands whose arguments are, in order, exactly
\* the tokens without wildcard (each once, unchanged) and nothing for the
\* wildcard tokens; and when the whole input is such vanishing tokens the shell
\* goes back to its read with no pipe created and no process forked.
C11_GlobLaw ==
  [][(/\ pc = "parse" /\ pc' \notin {"parse", "crashed"}
      /\ \A k \in 1..Len(tokens) : Wild(tokens[k]) => NoMatch(tokens[k])) =>
       /\ (pc' = "loop") => FlatArgs(cmds', 1) = PlainTokens(ArgTokens(tokens))
       /\ (tokens # <<>> /\ \A k \in 1..Len(tokens) : NoMatch(tokens[k])) =>
            /\ pc' = "read"
            /\ procs' = procs
            /\ fds' = fds
            /\ forkCount' = forkCount /\ pipeCount' = pipeCount]_vars

\* C11 witness: a command is about to be run whose token sequence held a plain
\* token, kept as the only argument, and a wildcard token that matched nothing.
C11_PatternVanished ==
  /\ pc = "loop"
  /\ Len(tokens) = 2
  /\ ~Wild(tokens[1])
  /\ NoMatch(tokens[2])
  /\ Len(cmds) = 1
  /\ cmds[1].args = <<tokens[1]>>

\* The shell has forked the child of a single command without operator tokens
\* and that child is running its program.
SingleCommandRuns ==
  /\ pc \in {"parent", "cleanup", "wait"}
  /\ tokens # <<>>
  /\ \A k \in 1..Len(tokens) : tokens[k] \notin {PipeToken, <<"|", "|">>}
  /\ Running(child_pid)

\* C12 (as stated): the program of a single command without operator tokens is
\* handed exactly the tokenizer's tokens, in order, and argument 0 is the name
\* the program was looked up by.
C12_ArgvIsTokens ==
  SingleCommandRuns =>
    /\ procs[child_pid].argv = tokens
    /\ procs[child_pid].argv[1] = procs[child_pid].file

\* C12 (amended): it is handed the tokens after pathname expansion, each
\* wildcard token replaced by the names it matches, and argument 0 is the
\* name the program was looked up by.
C12_ArgvIsExpandedTokens ==
  SingleCommandRuns =>
    /\ procs[child_pid].argv = ExpandAll(tokens, 1)
    /\ procs[child_pid].argv[1] = procs[child_pid].file

\* C12 witness: a program runs with two arguments that differ.
C12_TwoArgumentsRun ==
  /\ SingleCommandRuns
  /\ Len(procs[child_pid].argv) = 2
  /\ procs[child_pid].argv[1] # procs[child_pid].argv[2]
  /\ procs[child_pid].argv = tokens

\* C13: the exit code the shell derives when its wait returns is the exit
\* status of the final stage of the pipeline (the negated signal number if a
\* signal ended it), whatever the other stages did.
C13_ExitCodeOfFinalStage ==
  [][(pc = "wait" /\ pc' = "read") =>
       \E p \in DOMAIN procs :
         /\ procs[p].last
         /\ procs[p].stage = Len(cmds)
         /\ procs[p].st = "exited"
         /\ p \notin DOMAIN procs'
         /\ LET s == procs[p].status
                code == exitcode'[1]
            IN  /\ exitcode' = <<code>>
                /\ (s % 256 = 0) => (code * 256 = s)
                /\ (s % 256 # 0) => (code = -s)]_vars

\* C13 witness: after a pipeline typed on the first line the derived exit code
\* is 1 although an earlier stage exited with status 0.
C13_LastFailedFirstSucceeded ==
  /\ pc = "read"
  /\ nlines = 1
  /\ exitcode = <<1>>
  /\ \E p \in DOMAIN procs : procs[p].st = "exited" /\ procs[p].status = 0

\* A child that has not yet called execvp and whose program is on no PATH
\* directory.
ProgramMissing(p) ==
  /\ p \in DOMAIN procs
  /\ procs[p].st = "forked"
  /\ procs[p].cmd.name # <<>>
  /\ procs[p].cmd.name \notin Programs

Fresh == logical_line = <<>> /\ prompt = default_prompt

Continuing == logical_line # <<>> /\ prompt = continuation_prompt

\* C15: whenever the shell arrives at its read it is either fresh (nothing
\* pending, default prompt) or continuing (text pending, continuation prompt);
\* the pending text becomes non-empty only in a step whose lexing asked for a
\* continuation line, and is empty after every step whose lexing succeeded.
C15_FreshOrContinuing ==
  [][/\ (pc' = "read") => (Fresh' \/ Continuing')
     /\ (logical_line = <<>> /\ logical_line' # <<>>) =>
          (pc = "lex" /\ lex(logical_line \o line).raised = "FinalBackslash")
     /\ (pc = "lex" /\ pc' = "parse") => logical_line' = <<>>]_vars

\* C16: every os.pipe() call of a run of the loop, failing or not, is made
\* before the first os.fork() of that run: no child of the pipeline exists
\* when a pipe creation can fail.
C16_PipesBeforeForks ==
  [][(pc = "loop" /\ ~IsLast /\ pc' # pc) => forkCount = 0]_vars

\* The descriptors of a table that refer to a pipe end.
PipeFds(tbl) == {f \in DOMAIN tbl : tbl[f].obj[1] # "tty"}

\* C17: when a child calls execvp, the pipe descriptors of its table are its
\* standard input and standard output only: the originals of the duplicated
\* descriptors and the pipe ends it does not use have been closed before.
C17_ChildClosedBeforeExec ==
  [][\A p \in DOMAIN procs :
       (procs[p].st = "forked" /\ procs'[p] # procs[p]) =>
         PipeFds(TableAtExec(procs[p])) \subseteq {STDIN, STDOUT}]_vars

\* Every operator character of the line from position i on lies inside single
\* or double quotes; q is the quote character open at position i, "" if none.
RECURSIVE OperatorsQuotedFrom(_, _, _)
OperatorsQuotedFrom(text, i, q) ==
  IF i > Len(text) THEN TRUE
  ELSE LET c == text[i] IN
       IF q = ""
       THEN IF c \in ProcCtlChars THEN FALSE
            ELSE IF c = "\\"
            THEN (i + 1 <= Len(text) => text[i + 1] \notin ProcCtlChars)
                 /\ OperatorsQuotedFrom(text, i + 2, q)
            ELSE IF c \in Quotes THEN OperatorsQuotedFrom(text, i + 1, c)
            ELSE OperatorsQuotedFrom(text, i + 1, q)
       ELSE IF c = q THEN OperatorsQuotedFrom(text, i + 1, "")
       ELSE IF c = "\\" /\ q = "\"" THEN OperatorsQuotedFrom(text, i + 2, q)
       ELSE OperatorsQuotedFrom(text, i + 1, q)

HasOperator(text) == \E i \in 1..Len(text) : text[i] \in ProcCtlChars

\* C18: a line typed at the default prompt whose operator characters all lie
\* inside quotes reaches the tokenizer as the expansions left it, no space
\* inserted: its tokens are those of the expanded line, and none is a pipe token.
C18_QuotedOperatorsUntouched ==
  [][(/\ pc = "lex" /\ pc' # "lex" /\ lastInput = "line" /\ logical_line = <<>>
      /\ HasOperator(rawLine)
      /\ OperatorsQuotedFrom(expandvars(expanduser(rawLine)), 1, "")
      /\ lex(expandvars(expanduser(rawLine))).raised = "") =>
       /\ line = expandvars(expanduser(rawLine))
       /\ pc' = "parse"
       /\ tokens' = lex(expandvars(expanduser(rawLine))).tokens
       /\ \A k \in 1..Len(tokens') : tokens'[k] # PipeToken]_vars

\* ------------------------------------------------------------------------
\* End-of-file on a pipe, and the scheduling of the processes
\* ------------------------------------------------------------------------
\* The descriptor tables of the processes that are alive.
LiveTables == {fds} \cup {procs[p].fds : p \in DOMAIN procs}

\* Pipe k has a writer: some process holds a descriptor of its write end.
HasWriter(k) == \E tbl \in LiveTables : \E f \in DOMAIN tbl : tbl[f].obj = <<"w", k>>

\* A read from the standard input of the running child p returns end-of-file
\* once everything written has been read: its standard input is the read end
\* of a pipe without writer.
AtEof(p) ==
  /\ Running(p)
  /\ procs[p].fds[STDIN].obj[1] = "r"
  /\ ~HasWriter(procs[p].fds[STDIN].obj[2])

\* A child takes its next step: it calls execvp, or its program, having read
\* its input to the end, exits.  A first stage reads the terminal, whose
\* input the user ends.
ChildProgress ==
  \E pid \in DOMAIN procs :
    \/ child_exec(pid)
    \/ (AtEof(pid) \/ procs[pid].stage = 1) /\ ProgramExit(pid, 0)

\* The kernel schedules every process that can run: the shell returns from
\* waitpid once the child has exited, and the children make progress.
LiveSpec == Init /\ [][Next]_vars /\ WF_vars(Wait) /\ WF_vars(ChildProgress)

\* The pipe a child of a later stage reads: the object behind the descriptor
\* it was given as standard input.
StdinObj(p) ==
  IF procs[p].st = "forked" THEN procs[p].fds[procs[p].stdin].obj
  ELSE procs[p].fds[STDIN].obj

\* Once stage i+1 is forked, the write end of the pipe it reads is open in no
\* process but stage i.
WriteEndOnlyInWriter ==
  \A q \in DOMAIN procs :
    (procs[q].st # "exited" /\ procs[q].stage > 1) =>
      /\ StdinObj(q)[1] = "r"
      /\ \A f \in DOMAIN fds : fds[f].obj # <<"w", StdinObj(q)[2]>>
      /\ \A p \in DOMAIN procs :
           (\E f \in DOMAIN procs[p].fds : procs[p].fds[f].obj = <<"w", StdinObj(q)[2]>>)
             => (procs[p].leader = procs[q].leader /\ procs[p].stage = procs[q].stage - 1)

\* C19: from the fork of stage i+1 on, the write end of pipe i is open in stage
\* i only, so stage i+1 is at end-of-file once stage i has exited; and a
\* pipeline whose stages exit at end-of-file completes: the shell's wait
\* returns.
C19_PipelineCompletes ==
  /\ []WriteEndOnlyInWriter
  /\ [](\A q \in DOMAIN procs :
          (Running(q) /\ procs[q].stage > 1
           /\ \A p \in DOMAIN procs :
                (procs[p].leader = procs[q].leader /\ procs[p].stage = procs[q].stage - 1)
                  => procs[p].st = "exited")
          => AtEof(q))
  /\ (pc = "wait") ~> (pc = "read")

\* C19 witness: the last stage of a three-stage pipeline is at end-of-file
\* while the shell waits for it.
C19_LastStageAtEof ==
  /\ pc = "wait"
  /\ Len(cmds) = 3
  /\ AtEof(child_pid)

\* C20: the accumulated text never asks for a continuation by itself (it never
\* ends in an unescaped backslash), so the lexing attempted at end-of-input
\* never returns the shell to its read with text still pending: it succeeds,
\* leaving nothing pending, or the shell process ends; and end-of-input with
\* nothing pending ends the shell.
C20_EofNeverSpins ==
  [][/\ lex(logical_line).raised # "FinalBackslash"
     /\ (pc = "lex" /\ pc' # "lex" /\ lastInput = "eof") =>
          /\ pc' \in {"parse", "crashed"}
          /\ pc' = "parse" => logical_line' = <<>>
     /\ (pc = "read" /\ pc' # "read" /\ lastInput' = "eof" /\ logical_line = <<>>) =>
          pc' = "exited"]_vars

\* C20 witness: the text accumulated over a continuation has been lexed at
\* end-of-input, and nothing is pending.
C20_FinalizedAtEof ==
  /\ pc = "parse"
  /\ lastInput = "eof"
  /\ nlines > 0
  /\ tokens # <<>>
  /\ logical_line = <<>>

====
